---- MODULE Spec2Model ----
(***************************************************************************)
(* Model of anjani's event dispatcher (anjani/core/event_dispatcher.py):   *)
(* the listener registry, dispatch_event with its filter loop and the      *)
(* tasks it creates on the asyncio loop, the done callback                 *)
(* _event_dispatcher_callback, and dispatch_missed_events with the SESSION *)
(* record, the GetDifference requests and the replay tasks.                *)
(*                                                                         *)
(* asyncio is cooperative: a coroutine runs without interruption between   *)
(* two awaits, so one action of the model is one such stretch of code.     *)
(***************************************************************************)
EXTENDS Integers, Sequences, FiniteSets, TLC

\* ------------------------------------------------------------------ bounds

\* Total number of register_listener calls in one behaviour.
MaxRegs == 3
\* Number of listeners registered before events are dispatched.
MaxListeners == 2
\* Number of dispatch_event calls in one behaviour.
MaxCalls == 2
\* Number of payloads of a dispatch_event call.
MaxArgs == 2
\* Number of dispatch_missed_events calls in one behaviour.
MaxRuns == 2
\* Number of GetDifference requests of one dispatch_missed_events call.
MaxRequests == 3
\* Number of messages, and of other updates, of a page that has some.
MaxMessages == 3
MaxUpdates == 2

\* ------------------------------------------------------- program constants

\* register_listener's default priority.
DefaultPriority == 100

None == "None"

\* Event names whose listeners cannot carry a filter.
BuiltinEvents == {"load", "start", "started", "stop", "stopped"}

\* Event names for which a dispatch call keeps the first regex match.
FirstMatchEvents == {"callback_query", "inline_query"}

\* pyrogram's CallbackQuery, InlineQuery and Message: the payload types a
\* filter can be evaluated on.
EventType == {"CallbackQuery", "InlineQuery", "Message"}

\* ------------------------------------------------------------------ inputs

Plugins == {"pA", "pB"}
\* The listener functions of a plugin. A function carries the priority and
\* the filter its decorators gave it (_listener_priority, _listener_filters).
Funcs == {"on_a", "on_b", "on_c"}
PriorityOf(func) == IF func = "on_b" THEN 50 ELSE DefaultPriority
FiltersOf(func) == IF func = "on_a" THEN None ELSE "flt"
\* Event names the registry calls are made with.
RegistryEvents == {"message", "start"}
\* Event names that are dispatched.
DispatchEvents == {"message", "callback_query"}

VARIABLES
    listeners,  \* self.listeners: event name -> sequence of Listener
    nextSeq,    \* number of Listener objects constructed so far
    lastCall,   \* the last registry call and how it ended
    warnings,   \* number of self.log.warning records of register_listener
    calls,      \* the dispatch_event calls, in call order: the frame of
                \* each coroutine with the tasks it created
    loaded,     \* self.loaded
    running,    \* self._TelegramBot__running
    session,    \* the record of the bot in the SESSION collection: field
                \* name -> value, without fields when there is no record
    runs,       \* the dispatch_missed_events calls, in call order: the
                \* frame of each coroutine with the replay tasks it created
    queue       \* self.client.dispatcher.updates_queue: item -> number of
                \* times it was put

\* What dispatch_missed_events reads and writes.
reconcileVars == <<loaded, running, session, runs, queue>>

vars == <<listeners, nextSeq, lastCall, warnings, calls, reconcileVars>>

\* ---------------------------------------------------------------- Listener

\* Listener(event, func, plugin, priority, filters); seq is the order of
\* construction.
Listener(event, func, plug, priority, filters, seq) ==
    [event |-> event, func |-> func, plugin |-> plug,
     priority |-> priority, filters |-> filters, seq |-> seq]

\* Listener.__lt__: listeners order by priority.
ListenerLt(a, b) == a.priority < b.priority

\* Listener equality, used by list.remove: the tuple (event, owner, callback).
ListenerEq(a, b) ==
    /\ a.event = b.event
    /\ a.plugin = b.plugin
    /\ a.func = b.func

\* ---------------------------------------------------------------- registry

RECURSIVE bisect_right(_, _, _, _)
\* bisect.bisect_right(a, x, lo, hi) with 0-based lo and hi as in Python.
bisect_right(a, x, lo, hi) ==
    IF lo < hi
    THEN LET mid == (lo + hi) \div 2
         IN IF ListenerLt(x, a[mid + 1])
            THEN bisect_right(a, x, lo, mid)
            ELSE bisect_right(a, x, mid + 1, hi)
    ELSE lo

\* a.insert(i, x) with a 0-based index i.
ListInsert(a, i, x) ==
    SubSeq(a, 1, i) \o <<x>> \o SubSeq(a, i + 1, Len(a))

RECURSIVE bisect_left(_, _, _, _)
\* bisect.bisect_left: the leftmost place, before the equal elements.
bisect_left(a, x, lo, hi) ==
    IF lo < hi
    THEN LET mid == (lo + hi) \div 2
         IN IF ListenerLt(a[mid + 1], x)
            THEN bisect_left(a, x, mid + 1, hi)
            ELSE bisect_left(a, x, lo, mid)
    ELSE lo

\* insort written with bisect_left.
insort_left(a, x) == ListInsert(a, bisect_left(a, x, 0, Len(a)), x)

\* bisect.insort(a, x): insert x after the rightmost element not greater.
insort(a, x) == ListInsert(a, bisect_right(a, x, 0, Len(a)), x)

RECURSIVE ListIndex(_, _, _)
\* 1-based index of the first element of a equal to x at or after i;
\* 0 when there is none.
ListIndex(a, x, i) ==
    IF i > Len(a) THEN 0
    ELSE IF ListenerEq(a[i], x) THEN i
    ELSE ListIndex(a, x, i + 1)

\* a.pop(0) in the place of a.remove(x).
ListPopFirst(a, x) == Tail(a)

\* list.remove(x) once the element is known to be there.
ListRemove(a, x) ==
    LET i == ListIndex(a, x, 1)
    IN SubSeq(a, 1, i - 1) \o SubSeq(a, i + 1, Len(a))

\* The registry after `del self.listeners[event]`.
DelKey(reg, event) == [e \in (DOMAIN reg) \ {event} |-> reg[e]]

\* The registry after `self.listeners[event] = lst`.
SetKey(reg, event, lst) ==
    [e \in (DOMAIN reg) \cup {event} |-> IF e = event THEN lst ELSE reg[e]]

\* unregister_listener with the ValueError of list.remove swallowed.
UnregisterErrorSwallowed(reg, listener) ==
    IF listener.event \notin DOMAIN reg THEN "KeyError" ELSE "none"

\* The error unregister_listener raises on reg, "none" when it returns.
UnregisterError(reg, listener) ==
    IF listener.event \notin DOMAIN reg THEN "KeyError"
    ELSE IF ListIndex(reg[listener.event], listener, 1) = 0 THEN "ValueError"
    ELSE "none"

\* unregister_listener without its `del self.listeners[listener.event]`.
UnregisteredKeepKey(reg, listener) ==
    IF UnregisterError(reg, listener) # "none" THEN reg
    ELSE SetKey(reg, listener.event, ListRemove(reg[listener.event], listener))

\* The registry after unregister_listener(listener); unchanged when it raises.
Unregistered(reg, listener) ==
    IF UnregisterError(reg, listener) # "none" THEN reg
    ELSE LET rest == ListRemove(reg[listener.event], listener)
         IN IF rest = <<>>
            THEN DelKey(reg, listener.event)
            ELSE SetKey(reg, listener.event, rest)

Registered(reg, listener) ==
    IF listener.event \in DOMAIN reg
    THEN SetKey(reg, listener.event, insort(reg[listener.event], listener))
    ELSE SetKey(reg, listener.event, <<listener>>)

\* A dispatch call suspended in a filter iterates over the list object it
\* looked up; once the key is deleted that object stays empty, whatever is
\* registered for the event afterwards.
Detach(cs, deleted) ==
    [id \in DOMAIN cs |->
        IF cs[id].pc = "filter" /\ cs[id].event \in deleted
        THEN [cs[id] EXCEPT !.detached = TRUE]
        ELSE cs[id]]

\* The filter dropped whatever the event is.
FilterDroppedEverywhere(event, filters) == filters # None

\* `event in {"load", ...} and filters is not None`
FilterDropped(event, filters) == event \in BuiltinEvents /\ filters # None

\* register_listener(plug, event, func, priority=..., filters=...)
RegisterListener(plug, event, func, priority, filters) ==
    LET dropped == FilterDropped(event, filters)
        flt == IF dropped THEN None ELSE filters
        listener == Listener(event, func, plug, priority, flt, nextSeq + 1)
    IN /\ nextSeq < MaxRegs
       /\ listeners' = Registered(listeners, listener)
       /\ nextSeq' = nextSeq + 1
       /\ warnings' = IF dropped THEN warnings + 1 ELSE warnings
       /\ lastCall' = [op |-> "register", arg |-> None, error |-> "none"]
       /\ UNCHANGED <<calls, reconcileVars>>

\* unregister_listener(listener)
UnregisterListener(listener) ==
    /\ listeners' = Unregistered(listeners, listener)
    /\ lastCall' = [op |-> "unregister", arg |-> listener,
                    error |-> UnregisterError(listeners, listener)]
    /\ calls' = Detach(calls, (DOMAIN listeners) \ (DOMAIN listeners'))
    /\ UNCHANGED <<nextSeq, warnings, reconcileVars>>

RECURSIVE UnregisterScan(_, _, _, _)
\* The inner loop of unregister_listeners over the list object lst of one
\* event: the list iterator is at 0-based index k, and the list it reads
\* is the one unregister_listener removes from.
UnregisterScan(reg, event, k, plug) ==
    IF event \notin DOMAIN reg THEN reg
    ELSE IF k >= Len(reg[event]) THEN reg
    ELSE LET listener == reg[event][k + 1]
         IN IF listener.plugin = plug
            THEN UnregisterScan(Unregistered(reg, listener), event, k + 1, plug)
            ELSE UnregisterScan(reg, event, k + 1, plug)

RECURSIVE UnregisterAllOf(_, _, _)
\* The outer loop of unregister_listeners over list(self.listeners.values()).
UnregisterAllOf(reg, events, plug) ==
    IF events = {} THEN reg
    ELSE LET event == CHOOSE e \in events : TRUE
         IN UnregisterAllOf(UnregisterScan(reg, event, 0, plug),
                            events \ {event}, plug)

\* unregister_listeners(plug)
UnregisterListeners(plug) ==
    /\ listeners' = UnregisterAllOf(listeners, DOMAIN listeners, plug)
    /\ lastCall' = [op |-> "unregister_all", arg |-> plug, error |-> "none"]
    /\ calls' = Detach(calls, (DOMAIN listeners) \ (DOMAIN listeners'))
    /\ UNCHANGED <<nextSeq, warnings, reconcileVars>>

\* The (event, func) pairs find_prefixed_funcs(plug, "on_") yields, one on_
\* function per event.
PluginFuncs(plug) == << <<"message", "on_b">>, <<"start", "on_c">> >>

RECURSIVE RegisteredAll(_, _, _, _, _)
\* The registry after register_listener has returned for the pairs k..n of
\* the plugin, the Listener objects numbered from seq + 1.
RegisteredAll(reg, plug, k, n, seq) ==
    IF k > n THEN reg
    ELSE LET event == PluginFuncs(plug)[k][1]
             func == PluginFuncs(plug)[k][2]
             flt == IF FilterDropped(event, FiltersOf(func))
                    THEN None ELSE FiltersOf(func)
             listener == Listener(event, func, plug, PriorityOf(func), flt,
                                  seq + 1)
         IN RegisteredAll(Registered(reg, listener), plug, k + 1, n, seq + 1)

\* `done` set only once register_listener has returned.
DoneAfterCall(raised) == ~raised

\* `done` as the `finally` block of register_listeners reads it: line 190
\* sets it to True before the try statement.
Done(raised) == TRUE

\* register_listeners(plug): register_listener returns for the first n on_
\* functions of the plugin and, when fails, raises for the next one before
\* it has put a listener in the list.
RegisterListeners(plug, n, fails) ==
    LET reg == RegisteredAll(listeners, plug, 1, n, nextSeq)
        dropped == {k \in 1..n :
                       FilterDropped(PluginFuncs(plug)[k][1],
                                     FiltersOf(PluginFuncs(plug)[k][2]))}
    IN /\ n + (IF fails THEN 1 ELSE 0) <= Len(PluginFuncs(plug))
       /\ fails \/ n = Len(PluginFuncs(plug))
       /\ nextSeq + n <= MaxRegs
       /\ listeners' = IF fails /\ ~Done(TRUE)
                        THEN UnregisterAllOf(reg, DOMAIN reg, plug)
                        ELSE reg
       /\ nextSeq' = nextSeq + n
       /\ warnings' = warnings + Cardinality(dropped)
       /\ lastCall' = [op |-> "register_all", arg |-> plug,
                       error |-> IF fails THEN "Exception" ELSE "none"]
       /\ calls' = Detach(calls, (DOMAIN listeners) \ (DOMAIN listeners'))
       /\ UNCHANGED reconcileVars

\* ---------------------------------------------------------------- dispatch

\* A payload of a dispatch call: its type, its `matches` attribute and its
\* chat context (event.chat of a Message, event.message of a CallbackQuery).
Payload(kind) == [kind |-> kind, matches |-> None, chat |-> "Chat"]

\* A payload whose chat context is None, as the CallbackQuery of an inline
\* message is (its `message` is None).
PayloadWithoutChat(kind) == [Payload(kind) EXCEPT !.chat = None]

\* isinstance(arg, EventType)
IsEventType(arg) == arg.kind \in EventType

\* The task loop.create_task(lst.func(*args), name=event) returns. state is
\* "pending" until the coroutine ends ("ok", "error" for an exception,
\* "stop" for StopPropagation) and "cancelling" between task.cancel() and
\* the CancelledError that ends it ("cancelled"). arg is the `event` the
\* done callback is bound to: the index of a payload, or 0 for the whole
\* args tuple. called tells that the done callback has run; alerts and
\* logged count what it reported, entry is the chat its log entry names
\* and raised tells that an exception left the callback.
NewTask(lst, event, arg) ==
    [lst |-> lst, name |-> event, arg |-> arg, state |-> "pending",
     called |-> FALSE, alerts |-> 0, logged |-> 0, entry |-> None,
     raised |-> FALSE]

TaskDone(t) == t.state \in {"ok", "error", "stop", "cancelled"}

\* The `event` argument create_task's done callback is bound to: the first
\* payload that is an EventType (its 1-based index), else the args tuple (0).
CallbackArg(args) ==
    IF \E j \in DOMAIN args : IsEventType(args[j])
    THEN CHOOSE j \in DOMAIN args :
            /\ IsEventType(args[j])
            /\ \A j2 \in 1..(j - 1) : ~IsEventType(args[j2])
    ELSE 0

\* The loop variable `lst` outside the loop, where it is not read.
NoListener == Listener(None, None, None, 0, None, 0)

\* The frame of dispatch_event(event, *args, wait=wait) as it is entered.
NewCall(event, args, wait) ==
    [event |-> event, args |-> args, wait |-> wait, pc |-> "start",
     i |-> 0, lst |-> NoListener, j |-> 0, match_found |-> FALSE,
     tasks |-> <<>>, detached |-> FALSE, errors |-> 0, evals |-> <<>>,
     born |-> nextSeq]
\* born is the number of Listener objects constructed before the call;
\* errors counts the "can't be used with filters" records of the error log;
\* evals is the history of the filter evaluations of the call: the listener
\* (its seq), the index of the payload, the result and the payload's
\* `matches` as the filter left it.

\* The list iterated from its end: the listeners in descending priority.
LiveListReversed(c) ==
    IF c.detached \/ c.event \notin DOMAIN listeners
    THEN <<>>
    ELSE [p \in DOMAIN listeners[c.event] |->
             listeners[c.event][Len(listeners[c.event]) + 1 - p]]

\* The list object `listeners` of a call, as it is now.
LiveList(c) ==
    IF c.detached \/ c.event \notin DOMAIN listeners
    THEN <<>>
    ELSE listeners[c.event]

\* The end of dispatch_event without `if wait`: the tasks are awaited.
AfterLoopAlwaysWaits(c) ==
    [c EXCEPT !.lst = NoListener, !.j = 0,
              !.pc = IF c.tasks # <<>> THEN "wait" ELSE "returned"]

\* The end of dispatch_event without its asyncio.wait.
AfterLoopNeverWaits(c) == [c EXCEPT !.lst = NoListener, !.j = 0, !.pc = "returned"]

\* The end of dispatch_event, after its loop.
AfterLoop(c) ==
    [c EXCEPT !.lst = NoListener, !.j = 0,
              !.pc = IF c.tasks # <<>> /\ c.wait THEN "wait" ELSE "returned"]

\* The skip without the test of the event name.
SkipOnMatchAlways(c) == c.match_found

\* No skip at all.
SkipNever(c) == FALSE

\* `match_found and event in {"callback_query", "inline_query"}`
SkipOnMatch(c) == c.match_found /\ c.event \in FirstMatchEvents

RECURSIVE ForListeners(_)
RECURSIVE ForArgs(_, _)

\* The body of `for lst in listeners` from create_task on: the task is
\* created, its done callback attached, and the loop goes on.
CreateTask(c) ==
    ForListeners([c EXCEPT !.tasks =
                     Append(@, NewTask(c.lst, c.event, CallbackArg(c.args)))])

\* `for lst in listeners`: the list iterator is at 0-based index c.i. The
\* frame returned is the one at the next await, or at the return.
ForListeners(c) ==
    IF c.i >= Len(LiveList(c))
    THEN AfterLoop(c)
    ELSE LET c1 == [c EXCEPT !.lst = LiveList(c)[c.i + 1], !.i = c.i + 1]
         IN IF c1.lst.filters # None
            THEN ForArgs(c1, 1)
            ELSE CreateTask(c1)

\* `for arg in args` of a listener with a filter, from the 1-based index j.
ForArgs(c, j) ==
    IF j > Len(c.args)
    THEN ForListeners(c)
    ELSE IF IsEventType(c.args[j])
         THEN IF SkipOnMatch(c)
              THEN ForArgs(c, j + 1)
              ELSE [c EXCEPT !.pc = "filter", !.j = j]
         ELSE ForArgs([c EXCEPT !.errors = @ + 1], j + 1)

\* dispatch_event without `except KeyError`.
EnteredKeyError(event, args, wait) ==
    IF event \notin DOMAIN listeners
    THEN [NewCall(event, args, wait) EXCEPT !.pc = "raised"]
    ELSE ForListeners(NewCall(event, args, wait))

\* dispatch_event up to its first await, or to its return.
Entered(event, args, wait) ==
    IF event \notin DOMAIN listeners
    THEN [NewCall(event, args, wait) EXCEPT !.pc = "returned"]
    ELSE IF listeners[event] = <<>>
    THEN [NewCall(event, args, wait) EXCEPT !.pc = "returned"]
    ELSE ForListeners(NewCall(event, args, wait))

\* A dispatch_event that takes the list of the event out of the registry
\* (self.listeners.pop(event, [])) instead of reading it.
DispatchEventPops(event, args, wait) ==
    /\ Len(calls) < MaxCalls
    /\ calls' = Append(calls, Entered(event, args, wait))
    /\ listeners' = IF event \in DOMAIN listeners
                     THEN DelKey(listeners, event) ELSE listeners
    /\ UNCHANGED <<nextSeq, lastCall, warnings, reconcileVars>>

\* dispatch_event(event, *args, wait=wait) is called.
DispatchEvent(event, args, wait) ==
    /\ Len(calls) < MaxCalls
    /\ calls' = Append(calls, Entered(event, args, wait))
    /\ UNCHANGED <<listeners, nextSeq, lastCall, warnings, reconcileVars>>

\* What a filter does to the `matches` attribute of the payload.
SetMatches(arg, effect) ==
    CASE effect = "set" -> [arg EXCEPT !.matches = "Match"]
      [] effect = "clear" -> [arg EXCEPT !.matches = None]
      [] OTHER -> arg

\* `match_found = True` without the test of arg.matches.
MatchFoundOnAccept(c, arg) == TRUE

\* `if arg.matches is not None: match_found = True`
MatchFound(c, arg) == c.match_found \/ arg.matches # None

\* `done = await lst.filters(self.client, arg)` of call id ends: the filter
\* raises, or answers `done` having set, cleared or kept arg.matches.
FilterDone(id, result, effect) ==
    /\ id \in DOMAIN calls
    /\ calls[id].pc = "filter"
    /\ LET c == calls[id]
           arg == SetMatches(c.args[c.j], effect)
           c1 == [c EXCEPT !.args[c.j] = arg,
                           !.evals = Append(@, [lst |-> c.lst.seq, arg |-> c.j,
                                                result |-> result,
                                                matches |-> arg.matches])]
       IN calls' = [calls EXCEPT ![id] =
              CASE result = "raise" -> [c1 EXCEPT !.pc = "raised"]
                [] result = "reject" -> ForArgs(c1, c.j + 1)
                [] OTHER ->
                     CreateTask([c1 EXCEPT !.match_found = MatchFound(c1, arg)])]
    /\ UNCHANGED <<listeners, nextSeq, lastCall, warnings, reconcileVars>>

\* The coroutine of task k of call id ends: it returns, raises an error or
\* raises StopPropagation.
TaskEnds(id, k, outcome) ==
    /\ id \in DOMAIN calls
    /\ k \in DOMAIN calls[id].tasks
    /\ calls[id].tasks[k].state = "pending"
    /\ calls' = [calls EXCEPT ![id].tasks[k].state = outcome]
    /\ UNCHANGED <<listeners, nextSeq, lastCall, warnings, reconcileVars>>

\* The CancelledError that task.cancel() arranged is thrown into task k of
\* call id, which ends cancelled.
TaskCancelled(id, k) ==
    /\ id \in DOMAIN calls
    /\ k \in DOMAIN calls[id].tasks
    /\ calls[id].tasks[k].state = "cancelling"
    /\ calls' = [calls EXCEPT ![id].tasks[k].state = "cancelled"]
    /\ UNCHANGED <<listeners, nextSeq, lastCall, warnings, reconcileVars>>

\* `for task in asyncio.all_tasks(): if task.get_name() == name:
\* task.cancel()`; all_tasks() holds the tasks of the loop that are not done.
CancelNamed(cs, name) ==
    [id \in DOMAIN cs |->
        [cs[id] EXCEPT !.tasks =
            [k \in DOMAIN cs[id].tasks |->
                IF cs[id].tasks[k].state = "pending" /\ cs[id].tasks[k].name = name
                THEN [cs[id].tasks[k] EXCEPT !.state = "cancelling"]
                ELSE cs[id].tasks[k]]]]

\* The test taken for `err is not None`.
CancelsOnAnyError(t) == t.state \in {"stop", "error"}

\* The callback without its isinstance test of StopPropagation.
StopNotRecognised(t) == FALSE

\* `isinstance(err, util.misc.StopPropagation)`
IsStopPropagation(t) == t.state = "stop"

\* _get_event_data(event) raises AttributeError: event.chat.title of a
\* Message, event.message.chat.title of a CallbackQuery, on None.
GetEventDataRaises(event) ==
    event.kind \in {"Message", "CallbackQuery"} /\ event.chat = None

\* The mapping _get_event_data(event) returns when it returns, reduced
\* to its chat title: an InlineQuery and any other value have no such key.
GetEventData(event) ==
    IF event.kind \in {"Message", "CallbackQuery"}
    THEN [chat_title |-> event.chat]
    ELSE [f \in {} |-> None]

\* data.get(key, default)
Get(data, key, default) == IF key \in DOMAIN data THEN data[key] ELSE default

\* The alert and the log entry of the done callback of task k of call id,
\* whose error is not StopPropagation: dispatch_alert is scheduled, then
\* _get_event_data(event) is called, then log.error.
Report(cs, id, k) ==
    LET t == cs[id].tasks[k]
        alerted == [cs EXCEPT ![id].tasks[k].alerts = @ + 1]
    IN IF t.arg = 0
       THEN [alerted EXCEPT ![id].tasks[k].logged = @ + 1,
                            ![id].tasks[k].entry = "args"]
       ELSE IF GetEventDataRaises(cs[id].args[t.arg])
            THEN [alerted EXCEPT ![id].tasks[k].raised = TRUE]
            ELSE [alerted EXCEPT
                    ![id].tasks[k].logged = @ + 1,
                    ![id].tasks[k].entry =
                        Get(GetEventData(cs[id].args[t.arg]),
                            "chat_title", "Unknown")]

\* _event_dispatcher_callback(name, event, func, future) for task k of call
\* id, which the loop calls once the task is done.
EventDispatcherCallback(id, k) ==
    /\ id \in DOMAIN calls
    /\ k \in DOMAIN calls[id].tasks
    /\ TaskDone(calls[id].tasks[k])
    /\ ~calls[id].tasks[k].called
    /\ LET t == calls[id].tasks[k]
           cs == [calls EXCEPT ![id].tasks[k].called = TRUE]
       IN calls' =
            IF t.state \in {"cancelled", "ok"} THEN cs
            ELSE IF IsStopPropagation(t) THEN CancelNamed(cs, t.name)
            ELSE Report(cs, id, k)
    /\ UNCHANGED <<listeners, nextSeq, lastCall, warnings, reconcileVars>>

\* `await asyncio.wait(tasks)` of call id returns: every task is done.
WaitReturns(id) ==
    /\ id \in DOMAIN calls
    /\ calls[id].pc = "wait"
    /\ \A k \in DOMAIN calls[id].tasks : TaskDone(calls[id].tasks[k])
    /\ calls' = [calls EXCEPT ![id].pc = "returned"]
    /\ UNCHANGED <<listeners, nextSeq, lastCall, warnings, reconcileVars>>

\* ---------------------------------------------------- dispatch_missed_events

\* find_one found no record.
NoRecord == [f \in {} |-> 0]

\* The test `not x` taken for `x is None`.
Present(data, field) == field \in DOMAIN data

\* `x = data.get(field)` passes `not x`: the field is there and its value
\* is not 0 (get gives None for a field that is missing).
Truthy(data, field) == field \in DOMAIN data /\ data[field] # 0

\* An update_one whose filter matches no record.
UnsetNoMatch(data) == data

\* The record after update_one(..., {"$unset": {pts, date, qts, seq}}); a
\* record that does not exist is not created.
Unset(data) ==
    [f \in (DOMAIN data) \ {"pts", "date", "qts", "seq"} |-> data[f]]

\* functions.updates.get_difference.GetDifference(pts=pts, date=date, qts=-1)
GetDifference(pts, date) == [pts |-> pts, date |-> date, qts |-> -1]

\* The frame of dispatch_missed_events as it is entered. outcome tells how
\* the call went on: "idle" when it returned before its loop, None while
\* the loop runs, then the way the loop ended. data is the record find_one
\* gave, without fields when there is none or when find_one was not
\* reached. pts and date are the local
\* variables, 0 before they are assigned. requests and responses are
\* the GetDifference requests invoked and the answers handled; pages holds
\* the two replay tasks of each Difference or DifferenceSlice handled;
\* writes counts the update_one calls; after is the set of the calls that
\* had ended when this one was made.
NewRun ==
    [pc |-> "done", outcome |-> "idle", data |-> NoRecord, pts |-> 0, date |-> 0,
     requests |-> <<>>, responses |-> <<>>, pages |-> <<>>, writes |-> 0,
     after |-> {r \in DOMAIN runs : runs[r].pc \in {"done", "raised"}}]

\* `diff = await self.client.invoke(GetDifference(...))` is reached.
Request(r) ==
    [r EXCEPT !.pc = "request",
              !.requests = Append(@, GetDifference(r.pts, r.date))]

\* The try statement without its `except`: every exception leaves the call.
EndedWithoutExcept(r, outcome) ==
    [r EXCEPT !.pc = IF outcome \in {"error", "oserror", "cancelled"}
                     THEN "raised" ELSE "done",
              !.outcome = outcome, !.writes = @ + 1]

\* The loop is left: the `finally` block has run, and the call returns
\* or, for an exception that `except` does not name, raises.
Ended(r, outcome) ==
    [r EXCEPT !.pc = IF outcome = "error" THEN "raised" ELSE "done",
              !.outcome = outcome, !.writes = @ + 1]

\* The guard without its test of __running.
NotLoaded == ~loaded

\* `not self.loaded or self._TelegramBot__running`
NotLoadedOrRunning == ~loaded \/ running

\* dispatch_missed_events up to its first GetDifference, or to its return.
Invoked ==
    IF NotLoadedOrRunning THEN NewRun
    ELSE IF DOMAIN session = {} THEN NewRun
    ELSE IF ~Truthy(session, "pts") \/ ~Truthy(session, "date")
    THEN [NewRun EXCEPT !.data = session]
    ELSE Request([NewRun EXCEPT !.data = session, !.outcome = None,
                                !.pts = session["pts"],
                                !.date = session["date"]])

\* dispatch_missed_events() is called.
DispatchMissedEvents ==
    /\ Len(runs) < MaxRuns
    /\ runs' = Append(runs, Invoked)
    /\ UNCHANGED <<listeners, nextSeq, lastCall, warnings, calls,
                   loaded, running, session, queue>>

\* The coroutine send_missed_message or send_missed_update over a list:
\* i of its items are put.
SendTask(list) == [list |-> list, i |-> 0]

SendDone(t) == t.i = Len(t.list)

\* Both tasks created with diff.new_messages.
NewPageMessagesTwice(diff) ==
    [messages |-> SendTask(diff.new_messages),
     updates |-> SendTask(diff.new_messages)]

\* The two tasks created for a Difference or a DifferenceSlice.
NewPage(diff) ==
    [messages |-> SendTask(diff.new_messages),
     updates |-> SendTask(diff.other_updates)]

\* The DifferenceTooLong branch leaving pts as it was.
TooLongKeepsPosition(r, diff) == r

\* `pts = diff.pts` of the DifferenceTooLong branch.
TooLong(r, diff) == [r EXCEPT !.pts = diff.pts]

\* The cursor left as it was: `pts, date = state.pts, state.date` not made.
StateKept(r, diff) == [pts |-> r.pts, date |-> r.date]

\* `state` of the Difference / DifferenceSlice branch: diff.state of a
\* Difference, diff.intermediate_state of a DifferenceSlice.
State(r, diff) ==
    IF diff.kind = "Difference" THEN diff.state ELSE diff.intermediate_state

\* `continue` in the place of `break`: the loop makes its next request.
BreakContinues(r, outcome) == Request(r)

\* `break` of the DifferenceEmpty branch and of the `else` branch: the loop
\* is left and the call ends.
Break(r, outcome) == Ended(r, outcome)

\* The frame r once the answer diff of its request is handled, up to the
\* next await or to the end of the call.
Handled(r, diff) ==
    LET r1 == [r EXCEPT !.responses = Append(@, diff)]
    IN CASE diff.kind \in {"Difference", "DifferenceSlice"} ->
              [r1 EXCEPT !.pts = State(r, diff).pts,
                         !.date = State(r, diff).date,
                         !.pc = "replay", !.pages = Append(@, NewPage(diff))]
         [] diff.kind = "DifferenceEmpty" ->
              Break([r1 EXCEPT !.date = diff.date], "empty")
         [] diff.kind = "DifferenceTooLong" ->
              Request(TooLong(r1, diff))
         [] OTHER -> Break(r1, "unknown")

\* The update_one placed after the try statement instead of in `finally`:
\* an exception that `except` does not name skips it.
UnsetAfterTry(data, r) == IF r.pc = "done" THEN Unset(data) ELSE data

\* The cursor of the frame saved to SESSION at every step of the loop.
FinallySavesCursor(data, r) ==
    IF r.pc \in {"done", "raised"} THEN Unset(data)
    ELSE [f \in DOMAIN data |->
             CASE f = "pts" -> r.pts
               [] f = "date" -> r.date
               [] OTHER -> data[f]]

\* The SESSION record data once a step has made the frame r: the `finally`
\* block has run when the call has ended, however it ended.
Finally(data, r) == IF r.pc \in {"done", "raised"} THEN Unset(data) ELSE data

\* The answers after which the loop makes another request.
Continues(diff) ==
    diff.kind \in {"Difference", "DifferenceSlice", "DifferenceTooLong"}

\* `await self.client.invoke(...)` of call id returns diff.
DiffResponse(id, diff) ==
    /\ id \in DOMAIN runs
    /\ runs[id].pc = "request"
    /\ Continues(diff) => Len(runs[id].requests) < MaxRequests
    /\ runs' = [runs EXCEPT ![id] = Handled(runs[id], diff)]
    /\ session' = Finally(session, runs'[id])
    /\ UNCHANGED <<listeners, nextSeq, lastCall, warnings, calls,
                   loaded, running, queue>>

\* `await self.client.invoke(...)` of call id raises: an OSError, which
\* `except` swallows, or another error, which leaves the call.
InvokeRaises(id, err) ==
    /\ id \in DOMAIN runs
    /\ runs[id].pc = "request"
    /\ runs' = [runs EXCEPT ![id] =
                   Ended(@, IF err = "OSError" THEN "oserror" ELSE "error")]
    /\ session' = Finally(session, runs'[id])
    /\ UNCHANGED <<listeners, nextSeq, lastCall, warnings, calls,
                   loaded, running, queue>>

\* The coroutine of call id is cancelled while it awaits the answer or
\* asyncio.wait: `except` swallows the CancelledError. The replay tasks
\* are tasks of their own and go on.
RunCancelled(id) ==
    /\ id \in DOMAIN runs
    /\ runs[id].pc \in {"request", "replay"}
    /\ runs' = [runs EXCEPT ![id] = Ended(@, "cancelled")]
    /\ session' = Finally(session, runs'[id])
    /\ UNCHANGED <<listeners, nextSeq, lastCall, warnings, calls,
                   loaded, running, queue>>

\* The queue after put(item).
Put(q, item) ==
    [x \in (DOMAIN q) \cup {item} |->
        IF x = item THEN (IF x \in DOMAIN q THEN q[x] + 1 ELSE 1) ELSE q[x]]

\* What the replay tasks of page p of call id put for an item of their
\* list: send_missed_message wraps the message in an UpdateNewMessage.
QueueItem(id, p, kind, x) == [run |-> id, page |-> p, kind |-> kind, of |-> x]

\* send_missed_message of page p of call id puts its next message.
SendMissedMessage(id, p) ==
    /\ id \in DOMAIN runs
    /\ p \in DOMAIN runs[id].pages
    /\ ~SendDone(runs[id].pages[p].messages)
    /\ LET t == runs[id].pages[p].messages
       IN /\ queue' = Put(queue, QueueItem(id, p, "UpdateNewMessage",
                                            t.list[t.i + 1]))
          /\ runs' = [runs EXCEPT ![id].pages[p].messages.i = @ + 1]
    /\ UNCHANGED <<listeners, nextSeq, lastCall, warnings, calls,
                   loaded, running, session>>

\* send_missed_update of page p of call id puts its next update.
SendMissedUpdate(id, p) ==
    /\ id \in DOMAIN runs
    /\ p \in DOMAIN runs[id].pages
    /\ ~SendDone(runs[id].pages[p].updates)
    /\ LET t == runs[id].pages[p].updates
       IN /\ queue' = Put(queue, QueueItem(id, p, "Update", t.list[t.i + 1]))
          /\ runs' = [runs EXCEPT ![id].pages[p].updates.i = @ + 1]
    /\ UNCHANGED <<listeners, nextSeq, lastCall, warnings, calls,
                   loaded, running, session>>

\* The two tasks created and not awaited: the loop makes its next request
\* whatever they have put.
ReplayNotAwaited(id) ==
    /\ id \in DOMAIN runs
    /\ runs[id].pc = "replay"
    /\ runs' = [runs EXCEPT ![id] = Request(@)]
    /\ UNCHANGED <<listeners, nextSeq, lastCall, warnings, calls,
                   loaded, running, session, queue>>

\* An asyncio.wait that never returns.
ReplayNeverReturns(id) ==
    /\ id \in DOMAIN runs
    /\ runs[id].pc = "replay"
    /\ FALSE
    /\ UNCHANGED vars

\* `await asyncio.wait((..., ...))` of call id returns, both tasks of the
\* page being done, and the loop makes its next request.
ReplayDone(id) ==
    /\ id \in DOMAIN runs
    /\ runs[id].pc = "replay"
    /\ LET page == runs[id].pages[Len(runs[id].pages)]
       IN SendDone(page.messages) /\ SendDone(page.updates)
    /\ runs' = [runs EXCEPT ![id] = Request(@)]
    /\ UNCHANGED <<listeners, nextSeq, lastCall, warnings, calls,
                   loaded, running, session, queue>>

\* ---------------------------------------------------------- specifications

NoCall == [op |-> "none", arg |-> None, error |-> "none"]

\* The dispatcher as __init__ leaves it.
Constructed ==
    /\ listeners = <<>>
    /\ nextSeq = 0
    /\ lastCall = NoCall
    /\ warnings = 0
    /\ calls = <<>>
    /\ runs = <<>>
    /\ queue = <<>>

\* A bot that is not loaded yet and has no record in SESSION.
Init ==
    /\ Constructed
    /\ loaded = FALSE
    /\ running = FALSE
    /\ session = NoRecord

\* A Listener object a caller may hold: only its identity matters to remove.
Handle(event, plug, func) ==
    Listener(event, func, plug, DefaultPriority, None, 0)

NextRegistry ==
    \/ \E plug \in Plugins, event \in RegistryEvents, func \in Funcs :
          RegisterListener(plug, event, func, PriorityOf(func), FiltersOf(func))
    \/ \E plug \in Plugins, event \in RegistryEvents, func \in Funcs :
          UnregisterListener(Handle(event, plug, func))
    \/ \E plug \in Plugins : UnregisterListeners(plug)

SpecRegistry == Init /\ [][NextRegistry]_vars

\* The plugin plug has no listener in reg.
Unloaded(reg, plug) ==
    \A e \in DOMAIN reg : \A i \in DOMAIN reg[e] : reg[e][i].plugin # plug

\* Plugins loaded with register_listeners, which may fail at any of their
\* on_ functions, and unloaded with unregister_listeners.
NextPlugins ==
    \/ \E plug \in Plugins, n \in 0..MaxListeners, fails \in BOOLEAN :
          /\ Unloaded(listeners, plug)
          /\ RegisterListeners(plug, n, fails)
    \/ \E plug \in Plugins : UnregisterListeners(plug)
    \/ \E plug \in Plugins, event \in RegistryEvents, func \in Funcs :
          UnregisterListener(Handle(event, plug, func))

SpecPlugins == Init /\ [][NextPlugins]_vars

\* The payload type pyrogram hands over with an event.
PayloadOf(event) ==
    IF event = "callback_query" THEN "CallbackQuery" ELSE "Message"

CallIds == 1..MaxCalls
TaskIds == 1..MaxListeners
FilterResults == {"accept", "reject", "raise"}
MatchesEffects == {"keep", "set", "clear"}
Outcomes == {"ok", "error", "stop"}

\* The plugins register their listeners as they are loaded, before the
\* first event is dispatched.
Loading(event, func) ==
    /\ calls = <<>>
    /\ nextSeq < MaxListeners
    /\ RegisterListener("pA", event, func, PriorityOf(func), FiltersOf(func))

\* The steps of the asyncio loop on the tasks in flight.
TaskStep ==
    \/ \E id \in CallIds, k \in TaskIds, outcome \in Outcomes :
          TaskEnds(id, k, outcome)
    \/ \E id \in CallIds, k \in TaskIds : TaskCancelled(id, k)
    \/ \E id \in CallIds, k \in TaskIds : EventDispatcherCallback(id, k)
    \/ \E id \in CallIds : WaitReturns(id)

\* The payload lists dispatch_event is called with for an event: up to n
\* payloads, each the payload of the event or something a filter cannot be
\* evaluated on.
ArgLists(event, n) ==
    LET kinds == {Payload(PayloadOf(event)), Payload("Other")}
    IN UNION {[1..m -> kinds] : m \in 0..n}

\* One dispatch call with at most one payload, and the tasks it creates.
Next ==
    \/ \E event \in DispatchEvents, func \in Funcs : Loading(event, func)
    \/ \E event \in DispatchEvents, wait \in BOOLEAN :
          \E args \in ArgLists(event, 1) :
             /\ calls = <<>>
             /\ DispatchEvent(event, args, wait)
    \/ \E id \in CallIds, result \in FilterResults, effect \in MatchesEffects :
          FilterDone(id, result, effect)
    \/ TaskStep

Spec == Init /\ [][Next]_vars

\* The asyncio loop runs every task that is ready and every callback that
\* is scheduled; a listener coroutine is taken to end.
SpecFair == Spec /\ WF_vars(TaskStep)

\* The filter loop of one dispatch call with up to MaxArgs payloads, whose
\* filters answer before the loop runs a task.
NextPayloads ==
    \/ \E event \in DispatchEvents, func \in Funcs : Loading(event, func)
    \/ \E event \in DispatchEvents, wait \in BOOLEAN :
          \E args \in ArgLists(event, MaxArgs) :
             /\ calls = <<>>
             /\ DispatchEvent(event, args, wait)
    \/ \E id \in CallIds, result \in FilterResults, effect \in MatchesEffects :
          FilterDone(id, result, effect)

SpecPayloads == Init /\ [][NextPayloads]_vars

\* Listeners without filters and concurrent dispatch calls, each with the
\* payload of its event.
NextConcurrent ==
    \/ \E event \in DispatchEvents : Loading(event, "on_a")
    \/ \E event \in DispatchEvents, wait \in BOOLEAN :
          DispatchEvent(event, <<Payload(PayloadOf(event))>>, wait)
    \/ TaskStep

SpecConcurrent == Init /\ [][NextConcurrent]_vars

\* The payloads a dispatch call may carry for an event: its own payload
\* with and without chat context, a value that is no EventType, or none.
ReportArgs(event) ==
    {<<>>, <<Payload(PayloadOf(event))>>,
     <<PayloadWithoutChat(PayloadOf(event))>>, <<Payload("Other")>>,
     <<Payload("Other"), PayloadWithoutChat(PayloadOf(event))>>}

\* Listeners without filters, dispatch calls whose payloads have or lack
\* chat context, and the tasks and done callbacks they lead to.
NextReport ==
    \/ \E event \in DispatchEvents : Loading(event, "on_a")
    \/ \E event \in DispatchEvents, wait \in BOOLEAN :
          \E args \in ReportArgs(event) :
             /\ calls = <<>>
             /\ DispatchEvent(event, args, wait)
    \/ TaskStep

SpecReport == Init /\ [][NextReport]_vars

\* Listeners for message registered and removed between dispatch calls;
\* callback_query never has a listener.
NextLookup ==
    \/ \E func \in Funcs :
          /\ nextSeq < MaxListeners
          /\ RegisterListener("pA", "message", func, PriorityOf(func),
                              FiltersOf(func))
    \/ \E func \in Funcs : UnregisterListener(Handle("message", "pA", func))
    \/ UnregisterListeners("pA")
    \/ \E event \in DispatchEvents, wait \in BOOLEAN :
          DispatchEvent(event, <<Payload(PayloadOf(event))>>, wait)

SpecLookup == Init /\ [][NextLookup]_vars

\* One dispatch call for message, made once a listener has been
\* registered, with register_listener and unregister_listener calls for
\* message made before it, after it and while it awaits a filter.
NextLive ==
    \/ \E func \in Funcs :
          RegisterListener("pA", "message", func, PriorityOf(func),
                           FiltersOf(func))
    \/ \E func \in Funcs : UnregisterListener(Handle("message", "pA", func))
    \/ /\ calls = <<>>
       /\ nextSeq > 0
       /\ DispatchEvent("message", <<Payload("Message")>>, FALSE)
    \/ \E id \in CallIds, result \in {"accept", "reject"} :
          FilterDone(id, result, "keep")

SpecLive == Init /\ [][NextLive]_vars

\* The records the SESSION collection may hold for the bot when
\* dispatch_missed_events is called: none, or one with its _id, qts and
\* seq and with or without pts and date.
Sessions ==
    {NoRecord} \cup
    {[f \in {"_id", "qts", "seq"} \cup fields |->
         CASE f = "pts" -> pts
           [] f = "date" -> date
           [] OTHER -> 1] :
       fields \in SUBSET {"pts", "date"}, pts \in {0, 5}, date \in {0, 100}}

\* The lists of a page: empty, or with all the items a page may have.
Lists(n) == {<<>>, [k \in 1..n |-> k]}

\* The answers of the upstream to a GetDifference request.
Responses ==
    {[kind |-> "Difference", state |-> [pts |-> 60, date |-> 300],
      new_messages |-> m, other_updates |-> u] :
        m \in Lists(MaxMessages), u \in Lists(MaxUpdates)}
    \cup
    {[kind |-> "DifferenceSlice",
      intermediate_state |-> [pts |-> 55, date |-> 250],
      new_messages |-> m, other_updates |-> u] :
        m \in Lists(MaxMessages), u \in Lists(MaxUpdates)}
    \cup {[kind |-> "DifferenceEmpty", date |-> 200],
          [kind |-> "DifferenceTooLong", pts |-> 50],
          [kind |-> "Unknown"]}

RunIds == 1..MaxRuns
PageIds == 1..MaxRequests

\* The bot when dispatch_missed_events may be called: loaded or not,
\* receiving updates or not, with any record in SESSION.
InitReconcile ==
    /\ Constructed
    /\ loaded \in BOOLEAN
    /\ running \in BOOLEAN
    /\ session \in Sessions

\* dispatch_missed_events called again once the call before has ended,
\* against an upstream that answers anything.
NextReconcile ==
    \/ /\ \A r \in DOMAIN runs : runs[r].pc \in {"done", "raised"}
       /\ DispatchMissedEvents
    \/ \E id \in RunIds, diff \in Responses : DiffResponse(id, diff)
    \/ \E id \in RunIds, err \in {"OSError", "RPCError"} : InvokeRaises(id, err)
    \/ \E id \in RunIds : RunCancelled(id)
    \/ \E id \in RunIds, p \in PageIds : SendMissedMessage(id, p)
    \/ \E id \in RunIds, p \in PageIds : SendMissedUpdate(id, p)
    \/ \E id \in RunIds : ReplayDone(id)

SpecReconcile == InitReconcile /\ [][NextReconcile]_vars

\* The steps the loop and the upstream take on the calls in flight: a
\* request is answered or fails, a replay task puts, asyncio.wait returns.
ReconcileStep ==
    \/ \E id \in RunIds, diff \in Responses : DiffResponse(id, diff)
    \/ \E id \in RunIds, err \in {"OSError", "RPCError"} : InvokeRaises(id, err)
    \/ \E id \in RunIds, p \in PageIds : SendMissedMessage(id, p)
    \/ \E id \in RunIds, p \in PageIds : SendMissedUpdate(id, p)
    \/ \E id \in RunIds : ReplayDone(id)

\* Every request and every put completes, and the upstream answers at most
\* MaxRequests requests of a call with more to come.
SpecReconcileFair == SpecReconcile /\ WF_vars(ReconcileStep)

\* The answers of an upstream that has pages of messages and updates and
\* then nothing more.
OverlapResponses ==
    {d \in Responses :
        \/ d.kind = "DifferenceEmpty"
        \/ /\ d.kind = "Difference"
           /\ d.new_messages # <<>>
           /\ d.other_updates # <<>>}

\* dispatch_missed_events called at any time, also while a call before is
\* at an await of its loop.
NextOverlap ==
    \/ DispatchMissedEvents
    \/ \E id \in RunIds, diff \in OverlapResponses : DiffResponse(id, diff)
    \/ \E id \in RunIds, p \in PageIds : SendMissedMessage(id, p)
    \/ \E id \in RunIds, p \in PageIds : SendMissedUpdate(id, p)
    \/ \E id \in RunIds : ReplayDone(id)

SpecOverlap == InitReconcile /\ [][NextOverlap]_vars

\* ------------------------------------------------------------------ claims

\* The listeners of event e in reg.
ListenersOf(reg, e) == IF e \in DOMAIN reg THEN reg[e] ELSE <<>>

\* C5: the sequence of every event is sorted by ascending priority, and
\* listeners of equal priority are in the order they were registered.
C5_SortedStable ==
    \A e \in DOMAIN listeners :
        \A i, j \in DOMAIN listeners[e] :
            i < j =>
                /\ listeners[e][i].priority <= listeners[e][j].priority
                /\ listeners[e][i].priority = listeners[e][j].priority
                      => listeners[e][i].seq < listeners[e][j].seq

\* Three listeners on one event: the one registered last has the lowest
\* priority and stands first, before two of equal priority.
C5_Witness ==
    \E e \in DOMAIN listeners :
        /\ Len(listeners[e]) = 3
        /\ listeners[e][1].seq = 3
        /\ listeners[e][2].priority = listeners[e][3].priority

\* C6 as claimed: right after unregister_listeners(plugin) no listener
\* owned by plugin is left in the sequence of any event.
C6_NoneLeft ==
    lastCall.op = "unregister_all" =>
        \A e \in DOMAIN listeners :
            \A i \in DOMAIN listeners[e] :
                listeners[e][i].plugin # lastCall.arg

\* C7: no event name maps to an empty sequence.
C7_NoEmptySequence ==
    \A e \in RegistryEvents \cup DispatchEvents :
        e \in DOMAIN listeners <=> ListenersOf(listeners, e) # <<>>

\* unregister_listener has removed the last listener of an event, whose
\* key is gone, while another event keeps its listeners.
C7_Witness ==
    /\ lastCall.op = "unregister"
    /\ lastCall.error = "none"
    /\ lastCall.arg.event \notin DOMAIN listeners
    /\ listeners # <<>>

\* listener is in the registry, by the identity list.remove goes by.
InRegistry(reg, listener) ==
    \E i \in DOMAIN ListenersOf(reg, listener.event) :
        ListenerEq(reg[listener.event][i], listener)

\* C8: unregister_listener of a listener that is not in the registry
\* raises a not-found error (KeyError, ValueError) and leaves the registry
\* as it was.
C8_NotFound ==
    [][(lastCall'.op = "unregister" /\ ~InRegistry(listeners, lastCall'.arg))
          => /\ lastCall'.error \in {"KeyError", "ValueError"}
             /\ listeners' = listeners]_vars

\* An unregister_listener has raised ValueError: the event still has
\* listeners, and the one given is not among them.
C8_Witness ==
    /\ lastCall.op = "unregister"
    /\ lastCall.error = "ValueError"
    /\ lastCall.arg.event \in DOMAIN listeners
    /\ ~InRegistry(listeners, lastCall.arg)

\* Task k of call c is the task of listener number seq.
TaskOf(c, seq) == {k \in DOMAIN c.tasks : c.tasks[k].lst.seq = seq}

\* C1: a task is cancelled only by the done callback of a task that
\* raised StopPropagation, never by one that raised another error; and a
\* call creates at most one task for a listener, so a listener that
\* returns has run exactly once.
C1_ErrorIsolated ==
    \A id \in DOMAIN calls :
        \A k \in DOMAIN calls[id].tasks :
            /\ calls[id].tasks[k].state \in {"cancelling", "cancelled"}
                  => \E id2 \in DOMAIN calls :
                        \E k2 \in DOMAIN calls[id2].tasks :
                            /\ calls[id2].tasks[k2].state = "stop"
                            /\ calls[id2].tasks[k2].called
            /\ Cardinality(TaskOf(calls[id], calls[id].tasks[k].lst.seq)) = 1

\* One task of a call raised an error, which its done callback reported,
\* and its sibling returned.
C1_Witness ==
    \E id \in DOMAIN calls :
        \E k1, k2 \in DOMAIN calls[id].tasks :
            /\ calls[id].tasks[k1].state = "error"
            /\ calls[id].tasks[k1].called
            /\ calls[id].tasks[k1].logged = 1
            /\ calls[id].tasks[k2].state = "ok"
            /\ calls[id].tasks[k2].called

\* C2 as claimed: no dispatch_event call ends by raising to its caller.
C2_NeverRaises ==
    \A id \in DOMAIN calls : calls[id].pc # "raised"

\* C3 as claimed: once the done callback of a task that raised
\* StopPropagation has run, every other task of its call is done or being
\* cancelled: none is left to run and return, whether it was created
\* before the signal or after it.
C3_SiblingsCancelled ==
    \A id \in DOMAIN calls :
        \A k \in DOMAIN calls[id].tasks :
            (calls[id].tasks[k].state = "stop" /\ calls[id].tasks[k].called)
               => \A k2 \in (DOMAIN calls[id].tasks) \ {k} :
                     calls[id].tasks[k2].state # "pending"

\* C4 as claimed: the done callback of a task of one call changes no task
\* of another call.
C4_OtherCallsUntouched ==
    [][\A id \in DOMAIN calls :
          (\E k \in DOMAIN calls[id].tasks :
              /\ calls[id].tasks[k].state = "stop"
              /\ ~calls[id].tasks[k].called
              /\ calls'[id].tasks[k].called)
             => \A id2 \in (DOMAIN calls) \ {id} :
                   calls'[id2].tasks = calls[id2].tasks]_vars

\* The 1-based places of the listener number seq in the sequence of event e.
PlaceOf(e, seq) ==
    {p \in DOMAIN ListenersOf(listeners, e) : listeners[e][p].seq = seq}

\* C9 as claimed: in a call for callback_query or inline_query, once the
\* filter of a listener has accepted, no filter is evaluated afterwards.
C9_AcceptedWins ==
    \A id \in DOMAIN calls :
        calls[id].event \in FirstMatchEvents =>
            \A m \in DOMAIN calls[id].evals :
                calls[id].evals[m].result = "accept" => m = Len(calls[id].evals)

\* C9 as amended: in a call for callback_query or inline_query, once the
\* filter of a listener has accepted and the payload's `matches` is not
\* None, no filter is evaluated afterwards and no later listener with a
\* filter gets a task.
C9_FirstMatchWins ==
    \A id \in DOMAIN calls :
        calls[id].event \in FirstMatchEvents =>
            \A m \in DOMAIN calls[id].evals :
                (/\ calls[id].evals[m].result = "accept"
                 /\ calls[id].evals[m].matches # None)
                   => /\ m = Len(calls[id].evals)
                      /\ \A p \in PlaceOf(calls[id].event, calls[id].evals[m].lst) :
                            \A q \in DOMAIN listeners[calls[id].event] :
                                (/\ q > p
                                 /\ listeners[calls[id].event][q].filters # None)
                                   => TaskOf(calls[id],
                                             listeners[calls[id].event][q].seq) = {}

\* A call for callback_query has returned: the filter of the first of two
\* listeners with filters accepted and left a match, the second was
\* neither evaluated nor given a task.
C9_Witness ==
    \E id \in DOMAIN calls :
        /\ calls[id].event = "callback_query"
        /\ calls[id].pc = "returned"
        /\ Len(ListenersOf(listeners, "callback_query")) = 2
        /\ \A q \in {1, 2} : listeners["callback_query"][q].filters # None
        /\ Len(calls[id].evals) = 1
        /\ calls[id].evals[1].result = "accept"
        /\ calls[id].evals[1].matches # None
        /\ calls[id].evals[1].lst = listeners["callback_query"][1].seq
        /\ Len(calls[id].tasks) = 1

\* The listener number seq was evaluated, and accepted, in call c.
Evaluated(c, seq) == \E m \in DOMAIN c.evals : c.evals[m].lst = seq
Accepted(c, seq) ==
    \E m \in DOMAIN c.evals :
        c.evals[m].lst = seq /\ c.evals[m].result = "accept"

\* C10: in a call for an event other than callback_query and inline_query
\* every listener with a filter gets a task exactly when its filter
\* accepted; and when the loop of the call has ended and a payload is a
\* rich event, the filter of every such listener was evaluated, whatever
\* the filters before it answered.
C10_NoFirstMatchElsewhere ==
    \A id \in DOMAIN calls :
        calls[id].event \notin FirstMatchEvents =>
            \A q \in DOMAIN ListenersOf(listeners, calls[id].event) :
                LET lst == listeners[calls[id].event][q]
                IN lst.filters # None =>
                      /\ TaskOf(calls[id], lst.seq) # {}
                            <=> Accepted(calls[id], lst.seq)
                      /\ (/\ calls[id].pc \in {"wait", "returned"}
                          /\ \E j \in DOMAIN calls[id].args :
                                IsEventType(calls[id].args[j]))
                            => Evaluated(calls[id], lst.seq)

\* A call for message: the filter of the first listener accepted and left
\* a match, and the filter of the second was evaluated and accepted too.
C10_Witness ==
    \E id \in DOMAIN calls :
        /\ calls[id].event = "message"
        /\ calls[id].match_found
        /\ Len(calls[id].evals) = 2
        /\ calls[id].evals[1].result = "accept"
        /\ calls[id].evals[1].matches # None
        /\ calls[id].evals[2].result = "accept"
        /\ calls[id].evals[2].lst # calls[id].evals[1].lst
        /\ Len(calls[id].tasks) = 2

\* C11 as claimed: once the loop of a dispatch call has ended, whether the
\* call returned, waits for its tasks or raised, every listener of the
\* event registered without a filter has exactly one task of the call,
\* whatever the filters of the listeners before it did.
C11_UnfilteredScheduledOnce ==
    \A id \in DOMAIN calls :
        calls[id].pc \in {"wait", "returned", "raised"} =>
            \A q \in DOMAIN ListenersOf(listeners, calls[id].event) :
                LET lst == listeners[calls[id].event][q]
                IN lst.filters = None =>
                      Cardinality(TaskOf(calls[id], lst.seq)) = 1

\* The fields of the cursor that the SESSION record still has.
CursorFields == (DOMAIN session) \cap {"pts", "date", "qts", "seq"}

\* The call r of dispatch_missed_events has ended.
RunEnded(r) == r.pc \in {"done", "raised"}

\* C12: once a dispatch_missed_events call that made a request has ended,
\* by DifferenceEmpty, an answer of no known kind, an OSError of the
\* request, a cancellation or any other error of the request, it has
\* written to SESSION once and the record has none of the cursor fields.
C12_CursorRemoved ==
    \A id \in DOMAIN runs :
        (runs[id].requests # <<>> /\ RunEnded(runs[id]))
           => /\ CursorFields = {}
              /\ runs[id].writes = 1
              /\ runs[id].outcome \in
                    {"empty", "unknown", "oserror", "cancelled", "error"}

\* A call replayed a page, made its second request and left on an error
\* that `except` does not name: the record is still there, without cursor.
C12_Witness ==
    \E id \in DOMAIN runs :
        /\ runs[id].pc = "raised"
        /\ runs[id].outcome = "error"
        /\ Len(runs[id].requests) = 2
        /\ Len(runs[id].pages) = 1
        /\ "_id" \in DOMAIN session
        /\ CursorFields = {}

\* The Difference and DifferenceSlice answers the call r received, in order.
PagesReceived(r) ==
    SelectSeq(r.responses,
              LAMBDA d : d.kind \in {"Difference", "DifferenceSlice"})

\* The items the pages received by call id hold: every message, as an
\* UpdateNewMessage, and every other update.
Contained(id) ==
    LET pages == PagesReceived(runs[id])
    IN UNION {
         {QueueItem(id, p, "UpdateNewMessage", pages[p].new_messages[k]) :
             k \in DOMAIN pages[p].new_messages}
         \cup {QueueItem(id, p, "Update", pages[p].other_updates[k]) :
                  k \in DOMAIN pages[p].other_updates} :
         p \in DOMAIN pages}

RECURSIVE ItemCount(_)
\* The number of messages and updates of a sequence of pages.
ItemCount(pages) ==
    IF pages = <<>> THEN 0
    ELSE Len(Head(pages).new_messages) + Len(Head(pages).other_updates)
         + ItemCount(Tail(pages))

\* The items call id has put, and every replay task of the call is done.
Pushed(id) == {x \in DOMAIN queue : x.run = id}
ReplayFinished(r) ==
    \A p \in DOMAIN r.pages :
        SendDone(r.pages[p].messages) /\ SendDone(r.pages[p].updates)

\* C13: every item in the queue is an item of a page its call received
\* and was put once; and when a call has ended and its replay tasks are
\* done, the items it put are all the items of the pages it received,
\* as many as these pages hold messages and updates.
C13_EachItemOnce ==
    /\ \A x \in DOMAIN queue : queue[x] = 1 /\ x \in Contained(x.run)
    /\ \A id \in DOMAIN runs :
          (RunEnded(runs[id]) /\ ReplayFinished(runs[id]))
             => /\ Pushed(id) = Contained(id)
                /\ Cardinality(Pushed(id)) = ItemCount(PagesReceived(runs[id]))

\* A Difference with 3 messages and 2 updates, then DifferenceEmpty: the
\* call has ended with 5 items in the queue and no cursor in the record.
C13_Witness ==
    \E id \in DOMAIN runs :
        /\ runs[id].outcome = "empty"
        /\ Len(runs[id].responses) = 2
        /\ runs[id].responses[1].kind = "Difference"
        /\ Len(runs[id].responses[1].new_messages) = 3
        /\ Len(runs[id].responses[1].other_updates) = 2
        /\ Cardinality(DOMAIN queue) = 5
        /\ \A x \in DOMAIN queue : queue[x] = 1
        /\ CursorFields = {}

\* C14: after every DifferenceTooLong answer of a call the next request
\* is made, with the pts of the answer and the date of the request
\* before; the answer creates no replay task, and the call does not end
\* on it.
C14_TooLongResyncs ==
    \A id \in DOMAIN runs :
        LET r == runs[id]
        IN /\ Len(r.pages) = Len(PagesReceived(r))
           /\ \A n \in DOMAIN r.responses :
                 r.responses[n].kind = "DifferenceTooLong"
                    => /\ Len(r.requests) > n
                       /\ r.requests[n + 1] =
                             GetDifference(r.responses[n].pts, r.requests[n].date)
                       /\ (n = Len(r.responses) /\ RunEnded(r))
                             => r.outcome \in {"oserror", "cancelled", "error"}

\* The cursor was (5, 100); DifferenceTooLong(50) then DifferenceEmpty(200)
\* were answered: two requests, (5, 100) then (50, 100), nothing in the
\* queue, no cursor in the record.
C14_Witness ==
    \E id \in DOMAIN runs :
        /\ runs[id].outcome = "empty"
        /\ runs[id].responses = <<[kind |-> "DifferenceTooLong", pts |-> 50],
                                  [kind |-> "DifferenceEmpty", date |-> 200]>>
        /\ runs[id].requests = <<GetDifference(5, 100), GetDifference(50, 100)>>
        /\ DOMAIN queue = {}
        /\ CursorFields = {}

\* C15: a call made after a call that made a request has ended finds no
\* cursor: it returns before its loop, having made no request, put no
\* item and written nothing.
C15_OneAttempt ==
    \A id \in DOMAIN runs :
        (\E before \in runs[id].after : runs[before].requests # <<>>)
           => /\ runs[id].outcome = "idle"
              /\ runs[id].requests = <<>>
              /\ Pushed(id) = {}
              /\ runs[id].writes = 0

\* The first call replayed a page and was cancelled at its second
\* request; the second call, on the loaded bot, has returned at once.
C15_Witness ==
    /\ Len(runs) = 2
    /\ loaded /\ ~running
    /\ runs[1].outcome = "cancelled"
    /\ Len(runs[1].requests) = 2
    /\ Pushed(1) # {}
    /\ runs[2].after = {1}
    /\ runs[2].outcome = "idle"
    /\ runs[2].requests = <<>>

\* The call r made no request, put nothing and wrote nothing.
Idle(id) ==
    /\ runs[id].outcome = "idle"
    /\ runs[id].requests = <<>>
    /\ Pushed(id) = {}
    /\ runs[id].writes = 0

\* C20 as claimed: a call that finds no record, or a record without pts
\* or without date, makes no request, puts nothing and writes nothing;
\* a call that finds a record with both pts and date makes a request.
C20_PresentLeadsToRequest ==
    \A id \in DOMAIN runs :
        IF {"pts", "date"} \subseteq DOMAIN runs[id].data
        THEN runs[id].requests # <<>>
        ELSE Idle(id)

\* C20 as amended: a call that finds no record, or a record in which pts
\* or date is missing or 0, makes no request, puts nothing and writes
\* nothing; a call that finds a record with both pts and date, neither
\* of them 0, makes a request, the first one with that pts and date.
C20_CursorLeadsToRequest ==
    \A id \in DOMAIN runs :
        IF /\ {"pts", "date"} \subseteq DOMAIN runs[id].data
           /\ runs[id].data["pts"] # 0
           /\ runs[id].data["date"] # 0
        THEN /\ runs[id].requests # <<>>
             /\ runs[id].requests[1] =
                   GetDifference(runs[id].data["pts"], runs[id].data["date"])
        ELSE Idle(id)

\* A call on the loaded bot found a record with pts 0 and date 100: it
\* has returned without a request, and the record is as it was.
C20_Witness ==
    \E id \in DOMAIN runs :
        /\ loaded /\ ~running
        /\ runs[id].data = session
        /\ {"pts", "date"} \subseteq DOMAIN session
        /\ session["pts"] = 0
        /\ session["date"] = 100
        /\ Idle(id)

\* C16: when a dispatch call made with wait=True that created a task has
\* returned, every task it created is done: it returned, raised or was
\* cancelled.
C16_WaitedAllDone ==
    \A id \in DOMAIN calls :
        (calls[id].wait /\ calls[id].pc = "returned")
           => \A k \in DOMAIN calls[id].tasks : TaskDone(calls[id].tasks[k])

\* A call made with wait=True has returned: one of its two tasks raised
\* StopPropagation and the other was cancelled.
C16_Witness ==
    \E id \in DOMAIN calls :
        /\ calls[id].wait
        /\ calls[id].pc = "returned"
        /\ Len(calls[id].tasks) = 2
        /\ \E k1, k2 \in DOMAIN calls[id].tasks :
              /\ calls[id].tasks[k1].state = "stop"
              /\ calls[id].tasks[k2].state = "cancelled"

\* C17: a dispatch call made with wait=False never awaits its tasks, and
\* again and again every task created so far by such a call is done: the
\* loop runs each of them until it returns, raises or is cancelled by a
\* StopPropagation.
C17_BackgroundCompletes ==
    /\ [](\A id \in DOMAIN calls : ~calls[id].wait => calls[id].pc # "wait")
    /\ []<>(\A id \in DOMAIN calls :
              ~calls[id].wait =>
                  \A k \in DOMAIN calls[id].tasks :
                      /\ TaskDone(calls[id].tasks[k])
                      /\ calls[id].tasks[k].state = "cancelled"
                            => \E id2 \in DOMAIN calls :
                                  \E k2 \in DOMAIN calls[id2].tasks :
                                      calls[id2].tasks[k2].state = "stop")

\* A call made with wait=False has returned while its two tasks are
\* still to run.
C17_Witness ==
    \E id \in DOMAIN calls :
        /\ ~calls[id].wait
        /\ calls[id].pc = "returned"
        /\ Len(calls[id].tasks) = 2
        /\ \A k \in DOMAIN calls[id].tasks : calls[id].tasks[k].state = "pending"

\* The frame of a call that found no listener.
FoundNothing(c) ==
    /\ c.pc = "returned"
    /\ c.tasks = <<>>
    /\ c.evals = <<>>
    /\ c.errors = 0

\* C18: a dispatch call for an event that is not in the registry returns
\* at once, with no task created and no filter evaluated, and changes
\* neither the registry nor the calls made before.
C18_NoListenersNoOp ==
    [][(/\ Len(calls') = Len(calls) + 1
        /\ calls'[Len(calls')].event \notin DOMAIN listeners)
          => /\ FoundNothing(calls'[Len(calls')])
             /\ SubSeq(calls', 1, Len(calls)) = calls
             /\ UNCHANGED <<listeners, nextSeq, lastCall, warnings,
                            reconcileVars>>]_vars

\* The last listener of message was removed, and two calls for message
\* with a Message have returned with nothing done.
C18_Witness ==
    /\ lastCall.op = "unregister"
    /\ lastCall.error = "none"
    /\ lastCall.arg.event = "message"
    /\ "message" \notin DOMAIN listeners
    /\ Len(calls) = 2
    /\ \A id \in DOMAIN calls :
          /\ calls[id].event = "message"
          /\ calls[id].args # <<>>
          /\ FoundNothing(calls[id])

\* C19: register_listener never raises; a listener of a built-in event
\* is stored without filter, and a listener of any other event with the
\* filter it was registered with.
C19_BuiltinFilterDropped ==
    /\ lastCall.op = "register"
          => /\ lastCall.error = "none"
             /\ \E e \in DOMAIN listeners :
                   \E i \in DOMAIN listeners[e] : listeners[e][i].seq = nextSeq
    /\ \A e \in DOMAIN listeners :
          \A i \in DOMAIN listeners[e] :
              listeners[e][i].filters =
                 IF e \in BuiltinEvents THEN None
                 ELSE FiltersOf(listeners[e][i].func)

\* on_b, which carries a filter, was registered for start and for
\* message: the first is stored without filter, with a warning logged,
\* the second with its filter.
C19_Witness ==
    /\ {"start", "message"} \subseteq DOMAIN listeners
    /\ warnings = 1
    /\ \E i \in DOMAIN listeners["start"] :
          /\ listeners["start"][i].func = "on_b"
          /\ listeners["start"][i].filters = None
    /\ \E i \in DOMAIN listeners["message"] :
          /\ listeners["message"][i].func = "on_b"
          /\ listeners["message"][i].filters = FiltersOf("on_b")

\* C21: a dispatch_missed_events call whose loop was left on an OSError
\* of the request or on a cancellation has returned to its caller, not
\* raised, having unset the cursor in its one write to SESSION.
C21_FailureSilent ==
    \A id \in DOMAIN runs :
        runs[id].outcome \in {"oserror", "cancelled"}
           => /\ runs[id].pc = "done"
              /\ runs[id].writes = 1
              /\ CursorFields = {}

\* A call was cancelled inside asyncio.wait, one replay task of the page
\* still having items to put: it has returned, and the cursor is unset.
C21_Witness ==
    \E id \in DOMAIN runs :
        /\ runs[id].outcome = "cancelled"
        /\ runs[id].pc = "done"
        /\ Len(runs[id].pages) = 1
        /\ Len(runs[id].requests) = 1
        /\ ~ReplayFinished(runs[id])
        /\ CursorFields = {}

\* Both replay tasks of page p of call r have put all their items.
PageFinished(r, p) ==
    SendDone(r.pages[p].messages) /\ SendDone(r.pages[p].updates)

\* C22: while a call awaits the answer to a request, every item of every
\* page it received before is put; and a page that is not the last one
\* received is always finished.
C22_PagesSequential ==
    \A id \in DOMAIN runs :
        /\ runs[id].pc = "request" => ReplayFinished(runs[id])
        /\ \A p \in DOMAIN runs[id].pages :
              p < Len(runs[id].pages) => PageFinished(runs[id], p)

\* The second request of a call went out after the 5 items of its first
\* page were put, and the two replay tasks of its second page interleave:
\* each has put its first item and has more to put.
C22_Witness ==
    \E id \in DOMAIN runs :
        /\ runs[id].pc = "replay"
        /\ Len(runs[id].requests) = 2
        /\ Len(runs[id].pages) = 2
        /\ PageFinished(runs[id], 1)
        /\ Len(runs[id].pages[1].messages.list) = 3
        /\ Len(runs[id].pages[1].updates.list) = 2
        /\ runs[id].pages[2].messages.i = 1
        /\ runs[id].pages[2].updates.i = 1
        /\ ~SendDone(runs[id].pages[2].messages)
        /\ ~SendDone(runs[id].pages[2].updates)
        /\ Cardinality(Pushed(id)) = 7

\* C23: while the bot is running, no step writes the SESSION record or
\* puts to the queue, and every dispatch_missed_events call has returned
\* at once, without reading the record and without a request.
C23_NotWhileRunning ==
    [][running
         => /\ session' = session
            /\ queue' = queue
            /\ \A id \in DOMAIN runs' :
                  /\ runs'[id].pc = "done"
                  /\ runs'[id].outcome = "idle"
                  /\ runs'[id].requests = <<>>
                  /\ runs'[id].pages = <<>>
                  /\ runs'[id].writes = 0]_vars

\* The loaded bot is running and its record holds the cursor (5, 100):
\* two calls have returned at once and the cursor is still there.
C23_Witness ==
    /\ loaded /\ running
    /\ Len(runs) = 2
    /\ \A id \in DOMAIN runs : Idle(id) /\ runs[id].data = NoRecord
    /\ CursorFields = {"pts", "date", "qts", "seq"}
    /\ session["pts"] = 5
    /\ session["date"] = 100

\* The payload number j is the first rich event of the payloads of call c.
FirstRich(c, j) ==
    /\ j \in DOMAIN c.args
    /\ IsEventType(c.args[j])
    /\ \A j2 \in 1..(j - 1) : ~IsEventType(c.args[j2])

\* C24 as claimed: every filter evaluation of a call is on the first
\* payload that is a rich event, and a listener with a filter has a task
\* exactly when its filter accepted that payload.
C24_FirstRichOnly ==
    \A id \in DOMAIN calls :
        /\ \A m \in DOMAIN calls[id].evals :
              FirstRich(calls[id], calls[id].evals[m].arg)
        /\ \A k \in DOMAIN calls[id].tasks :
              calls[id].tasks[k].lst.filters # None
                 => \E m \in DOMAIN calls[id].evals :
                       /\ calls[id].evals[m].lst = calls[id].tasks[k].lst.seq
                       /\ calls[id].evals[m].result = "accept"
                       /\ FirstRich(calls[id], calls[id].evals[m].arg)

\* Some payload of call c is a rich event.
HasRich(c) == \E j \in DOMAIN c.args : IsEventType(c.args[j])

\* The listeners of the event of call c that carry a filter.
Filtered(c) ==
    {q \in DOMAIN ListenersOf(listeners, c.event) :
        listeners[c.event][q].filters # None}

\* C25 as claimed: a call none of whose payloads is a rich event, the
\* empty payload list included, does not raise; once its loop has ended
\* it has logged the error if a listener of the event carries a filter,
\* given no task to such a listener and one task to every other
\* listener. A call with a rich event among its payloads logs no error.
C25_ConfigErrorReported ==
    \A id \in DOMAIN calls :
        LET c == calls[id]
        IN IF HasRich(c) THEN c.errors = 0
           ELSE /\ c.pc \in {"wait", "returned"}
                /\ Filtered(c) # {} => c.errors > 0
                /\ \A q \in DOMAIN ListenersOf(listeners, c.event) :
                      Cardinality(TaskOf(c, listeners[c.event][q].seq)) =
                         IF q \in Filtered(c) THEN 0 ELSE 1

\* The listener number seq1 stands before the listener number seq2 in
\* the sequence of event e, or is the same; strictly before.
NotAfter(e, seq1, seq2) ==
    \A p1 \in PlaceOf(e, seq1), p2 \in PlaceOf(e, seq2) : p1 <= p2
Before(e, seq1, seq2) ==
    \A p1 \in PlaceOf(e, seq1), p2 \in PlaceOf(e, seq2) : p1 < p2

\* C26: the filter evaluations of a call follow the order of the
\* sequence of its event: an evaluation that ended earlier was for the
\* same listener or one before it, the evaluation under way is for a
\* listener not before any evaluated one, and the tasks of the call were
\* created in the order of the sequence.
C26_FiltersInOrder ==
    \A id \in DOMAIN calls :
        LET c == calls[id]
        IN /\ \A m, n \in DOMAIN c.evals :
                 m < n => /\ NotAfter(c.event, c.evals[m].lst, c.evals[n].lst)
                          /\ c.evals[m].lst = c.evals[n].lst
                                => c.evals[m].arg < c.evals[n].arg
           /\ c.pc = "filter" =>
                 \A m \in DOMAIN c.evals :
                     /\ NotAfter(c.event, c.evals[m].lst, c.lst.seq)
                     /\ c.evals[m].lst = c.lst.seq => c.evals[m].arg < c.j
           /\ \A k1, k2 \in DOMAIN c.tasks :
                 k1 < k2 => Before(c.event, c.tasks[k1].lst.seq, c.tasks[k2].lst.seq)

\* on_c then on_b were registered for message, on_b of lower priority
\* value: the filter of on_b was evaluated first, then that of on_c, both
\* accepted, and the task of on_b was created first.
C26_Witness ==
    \E id \in DOMAIN calls :
        /\ calls[id].event = "message"
        /\ Len(ListenersOf(listeners, "message")) = 2
        /\ listeners["message"][1].func = "on_b"
        /\ listeners["message"][1].seq = 2
        /\ listeners["message"][2].func = "on_c"
        /\ Len(calls[id].evals) = 2
        /\ calls[id].evals[1].lst = 2
        /\ calls[id].evals[2].lst = 1
        /\ Len(calls[id].tasks) = 2
        /\ calls[id].tasks[1].lst.func = "on_b"
        /\ calls[id].tasks[2].lst.func = "on_c"

\* C27: the done callback has requested an alert or written an error
\* record only for a task that raised an error other than
\* StopPropagation: never for a task that returned, was cancelled or
\* raised StopPropagation.
C27_ReportsOnlyErrors ==
    \A id \in DOMAIN calls :
        \A k \in DOMAIN calls[id].tasks :
            (calls[id].tasks[k].alerts > 0 \/ calls[id].tasks[k].logged > 0)
               => calls[id].tasks[k].state = "error"

\* The done callbacks of a task that raised StopPropagation and of its
\* sibling, cancelled by it, have run: nothing was reported.
C27_Witness ==
    \E id \in DOMAIN calls :
        \E k1, k2 \in DOMAIN calls[id].tasks :
            /\ calls[id].tasks[k1].state = "stop"
            /\ calls[id].tasks[k2].state = "cancelled"
            /\ \A k \in {k1, k2} :
                  /\ calls[id].tasks[k].called
                  /\ calls[id].tasks[k].alerts = 0
                  /\ calls[id].tasks[k].logged = 0


\* C28: once the done callback of a task that ended with a genuine error has
\* run, it has requested exactly one alert and written exactly one error
\* log entry and no exception has left it; when the payload it is bound to
\* has no chat context, the entry names the chat "Unknown".
C28_ErrorReportedOnce ==
    \A id \in DOMAIN calls : \A k \in DOMAIN calls[id].tasks :
        LET t == calls[id].tasks[k]
        IN (t.state = "error" /\ t.called)
              => /\ t.alerts = 1
                 /\ t.logged = 1
                 /\ ~t.raised
                 /\ (t.arg > 0 /\ calls[id].args[t.arg].chat = None)
                       => t.entry = "Unknown"

\* The answer d ends the loop: DifferenceEmpty, or a value of no known kind.
Terminal(d) ==
    d.kind \notin {"Difference", "DifferenceSlice", "DifferenceTooLong"}

\* C29: an answer that is DifferenceEmpty or of no known kind is the last
\* answer of its call: the call made no request after it, has ended with
\* its one write to SESSION and every page it received before is wholly
\* put; and from then on the call makes no request, receives no page and
\* puts no item.
C29_TerminalAnswer ==
    /\ [](\A id \in DOMAIN runs : \A n \in DOMAIN runs[id].responses :
            Terminal(runs[id].responses[n])
               => /\ n = Len(runs[id].responses)
                  /\ Len(runs[id].requests) = n
                  /\ RunEnded(runs[id])
                  /\ runs[id].writes = 1
                  /\ ReplayFinished(runs[id]))
    /\ [][\A id \in DOMAIN runs :
            runs[id].outcome \in {"empty", "unknown"}
               => /\ id \in DOMAIN runs'
                  /\ runs'[id] = runs[id]
                  /\ {x \in DOMAIN queue' : x.run = id} = Pushed(id)
                  /\ \A x \in Pushed(id) : queue'[x] = queue[x]]_vars

\* A call that received a page with items, put them all, was then answered
\* by a value of no known kind and ended; a later call has been made.
C29_Witness ==
    \E id \in DOMAIN runs :
        /\ Len(runs[id].responses) = 2
        /\ runs[id].responses[1].kind = "DifferenceSlice"
        /\ runs[id].responses[2].kind = "Unknown"
        /\ Pushed(id) # {}
        /\ runs[id].outcome = "unknown"
        /\ CursorFields = {}
        /\ id < Len(runs)

\* C30: the first request of a call carries the pts and the date of the
\* SESSION record it read; the request after a Difference carries the pts
\* and date of that answer's state, the request after a DifferenceSlice
\* those of its intermediate_state.
C30_RequestsFollowState ==
    \A id \in DOMAIN runs :
        LET r == runs[id]
        IN /\ r.requests # <<>>
                => /\ r.requests[1].pts = r.data["pts"]
                   /\ r.requests[1].date = r.data["date"]
           /\ \A n \in DOMAIN r.responses :
                 (n + 1) \in DOMAIN r.requests
                    => LET d == r.responses[n]
                           q == r.requests[n + 1]
                       IN /\ d.kind = "Difference"
                               => /\ q.pts = d.state.pts
                                  /\ q.date = d.state.date
                          /\ d.kind = "DifferenceSlice"
                               => /\ q.pts = d.intermediate_state.pts
                                  /\ q.date = d.intermediate_state.date

\* A call that read the cursor (5, 100), was answered by a Difference and
\* then by a DifferenceSlice, and has made its third request.
C30_Witness ==
    \E id \in DOMAIN runs :
        /\ Len(runs[id].responses) = 2
        /\ runs[id].data["pts"] = 5
        /\ runs[id].data["date"] = 100
        /\ runs[id].responses[1].kind = "Difference"
        /\ runs[id].responses[2].kind = "DifferenceSlice"
        /\ runs[id].requests =
              <<[pts |-> 5, date |-> 100, qts |-> -1],
                [pts |-> 60, date |-> 300, qts |-> -1],
                [pts |-> 55, date |-> 250, qts |-> -1]>>

\* Call id2 was made while call id1, which had read the cursor and made a
\* request, had not ended.
Overlaps(id1, id2) ==
    /\ id1 < id2
    /\ id1 \notin runs[id2].after
    /\ runs[id1].requests # <<>>

\* C31: a call made while an earlier call that read the cursor has not yet
\* cleared it makes no request and puts no item.
C31_NoOverlap ==
    \A id1, id2 \in DOMAIN runs :
        Overlaps(id1, id2)
           => runs[id2].requests = <<>> /\ Pushed(id2) = {}

\* C32: again and again every call made has ended; a call that made a
\* request has then written to SESSION once and the record has no cursor
\* field, and the call has returned unless its request raised an error
\* that is no OSError.
C32_Terminates ==
    []<>(\A id \in DOMAIN runs :
            /\ RunEnded(runs[id])
            /\ runs[id].requests # <<>>
                  => runs[id].writes = 1 /\ CursorFields = {}
            /\ runs[id].outcome # "error" => runs[id].pc = "done")

\* A call that was answered by DifferenceTooLong, by a Difference whose
\* items it put, and by DifferenceEmpty, and has returned.
C32_Witness ==
    \E id \in DOMAIN runs :
        /\ Len(runs[id].responses) = 3
        /\ runs[id].responses[1].kind = "DifferenceTooLong"
        /\ runs[id].responses[2].kind = "Difference"
        /\ runs[id].responses[3].kind = "DifferenceEmpty"
        /\ Pushed(id) # {}
        /\ runs[id].pc = "done"
        /\ CursorFields = {}

\* The step is one of dispatch_event: a call is entered, or the frame of a
\* call moves on.
DispatchStep ==
    \/ Len(calls') > Len(calls)
    \/ \E id \in DOMAIN calls :
          \/ calls'[id].pc # calls[id].pc
          \/ calls'[id].i # calls[id].i
          \/ calls'[id].evals # calls[id].evals
          \/ calls'[id].tasks # calls[id].tasks

\* C33: a step of dispatch_event leaves the registry as it is, every key
\* and every sequence; and a call entered for an event that has no key
\* returns at once, without error, task or filter evaluation.
C33_ReadsRegistryOnly ==
    [][DispatchStep
         => /\ listeners' = listeners
            /\ \A id \in (DOMAIN calls') \ (DOMAIN calls) :
                  calls'[id].event \notin DOMAIN listeners
                     => FoundNothing(calls'[id])]_vars

\* Listeners for message were registered and all removed again, and the
\* call made afterwards found no key for message and returned.
C33_Witness ==
    /\ nextSeq > 0
    /\ "message" \notin DOMAIN listeners
    /\ \E id \in DOMAIN calls :
          /\ calls[id].event = "message"
          /\ FoundNothing(calls[id])

\* The evaluations of the filter of listener number seq in call c.
EvalsOf(c, seq) == {m \in DOMAIN c.evals : c.evals[m].lst = seq}

\* C34: a call creates at most one task for a listener; and once the loop
\* of a call is over, every listener that was registered for the event
\* before the call and still is has been considered once: its filter was
\* evaluated once if it has one, and it has a task if it has none.
C34_EachListenerOnce ==
    \A id \in DOMAIN calls :
        LET c == calls[id]
        IN /\ \A k \in DOMAIN c.tasks :
                 Cardinality(TaskOf(c, c.tasks[k].lst.seq)) = 1
           /\ c.pc \in {"wait", "returned"}
                 => \A p \in DOMAIN ListenersOf(listeners, c.event) :
                       LET lst == listeners[c.event][p]
                       IN lst.seq <= c.born
                            => IF lst.filters # None
                               THEN Cardinality(EvalsOf(c, lst.seq)) = 1
                               ELSE Cardinality(TaskOf(c, lst.seq)) = 1

\* Evaluation m of call c accepted and left a match on the payload.
Matched(c, m) == c.evals[m].result = "accept" /\ c.evals[m].matches # None

\* C35: match_found of a call is set exactly when a filter of the call has
\* accepted and left `matches` other than None on the payload, and once
\* set it stays set; and when the loop of a call for callback_query or
\* inline_query with a rich payload is over and no filter left a match,
\* the filter of every listener that has one was evaluated, whichever
\* filters accepted before it.
C35_FlagNeedsMatch ==
    /\ [](\A id \in DOMAIN calls :
            LET c == calls[id]
            IN /\ c.match_found <=> \E m \in DOMAIN c.evals : Matched(c, m)
               /\ (/\ c.event \in FirstMatchEvents
                   /\ c.pc \in {"wait", "returned"}
                   /\ HasRich(c)
                   /\ ~c.match_found)
                     => \A p \in DOMAIN ListenersOf(listeners, c.event) :
                           listeners[c.event][p].filters # None
                              => Evaluated(c, listeners[c.event][p].seq))
    /\ [][\A id \in DOMAIN calls :
            calls[id].match_found => calls'[id].match_found]_vars

\* A call for callback_query whose first filter accepted and left no
\* match: the flag is not set and the filter of the second listener was
\* evaluated too.
C35_Witness ==
    \E id \in DOMAIN calls :
        /\ calls[id].event = "callback_query"
        /\ Len(ListenersOf(listeners, "callback_query")) = 2
        /\ Len(calls[id].evals) = 2
        /\ calls[id].evals[1].result = "accept"
        /\ calls[id].evals[1].matches = None
        /\ calls[id].evals[1].lst = listeners["callback_query"][1].seq
        /\ calls[id].evals[2].lst = listeners["callback_query"][2].seq
        /\ ~calls[id].match_found

\* C36: while a call is in its loop the SESSION record is the one the call
\* read and the call has not written; a call writes at most once; and a
\* step that changes the record removes pts, date, qts and seq from it and
\* changes nothing else.
C36_CursorNotAdvanced ==
    /\ [](\A id \in DOMAIN runs :
            /\ ~RunEnded(runs[id])
                  => session = runs[id].data /\ runs[id].writes = 0
            /\ runs[id].writes <= 1)
    /\ [][session' # session
            => /\ DOMAIN session' = (DOMAIN session) \ {"pts", "date", "qts", "seq"}
               /\ \A f \in DOMAIN session' : session'[f] = session[f]
               /\ \E id \in DOMAIN runs :
                     ~RunEnded(runs[id]) /\ RunEnded(runs'[id])]_vars

\* A call was answered by a Difference, put its items and made its second
\* request with the position 60, while SESSION still holds the position 5.
C36_Witness ==
    \E id \in DOMAIN runs :
        /\ runs[id].pc = "request"
        /\ Len(runs[id].requests) = 2
        /\ runs[id].responses[1].kind = "Difference"
        /\ runs[id].requests[2].pts = 60
        /\ Pushed(id) # {}
        /\ session["pts"] = 5
        /\ session["date"] = 100

\* The Listener objects in reg.
Records(reg) == UNION {{reg[e][i] : i \in DOMAIN reg[e]} : e \in DOMAIN reg}

\* Every sequence of new is what is left of the sequence of old for the
\* same event, in the same order.
OrderKept(old, new) ==
    \A e \in DOMAIN new :
        /\ e \in DOMAIN old
        /\ \A i \in DOMAIN new[e] : \E i0 \in DOMAIN old[e] : old[e][i0] = new[e][i]
        /\ \A i, j \in DOMAIN new[e] :
              i < j => \E i0, j0 \in DOMAIN old[e] :
                          /\ i0 < j0
                          /\ old[e][i0] = new[e][i]
                          /\ old[e][j0] = new[e][j]

\* C37: a step of unregister_listener removes one Listener, equal to the
\* one given, and a step of unregister_listeners removes only listeners of
\* the plugin given; the listeners left in each sequence are in the
\* order they were in.
C37_RemovesOnlyGiven ==
    [][(nextSeq' = nextSeq /\ listeners' # listeners)
         => LET removed == Records(listeners) \ Records(listeners')
            IN /\ lastCall'.op \in {"unregister", "unregister_all"}
               /\ lastCall'.op = "unregister"
                     => /\ Cardinality(removed) = 1
                        /\ \A l \in removed : ListenerEq(l, lastCall'.arg)
               /\ lastCall'.op = "unregister_all"
                     => \A l \in removed : l.plugin = lastCall'.arg
               /\ OrderKept(listeners, listeners')]_vars

\* unregister_listeners of one plugin has left, in one sequence, two
\* listeners of the other plugin that have different priorities.
C37_Witness ==
    /\ lastCall.op = "unregister_all"
    /\ nextSeq = 3
    /\ \E e \in DOMAIN listeners :
          /\ Len(listeners[e]) = 2
          /\ listeners[e][1].priority < listeners[e][2].priority
          /\ \A i \in {1, 2} : listeners[e][i].plugin # lastCall.arg

\* C38: a register_listeners that ends with the exception of a
\* register_listener removes nothing: every listener that was in the
\* registry is still there, and so is every listener the call registered
\* before the one that failed, each owned by the plugin.
C38_NoRollback ==
    [][(lastCall'.op = "register_all" /\ lastCall'.error # "none")
         => LET added == Records(listeners') \ Records(listeners)
            IN /\ Records(listeners) \subseteq Records(listeners')
               /\ Cardinality(added) = nextSeq' - nextSeq
               /\ \A l \in added : l.plugin = lastCall'.arg]_vars

\* register_listeners of a plugin has failed at its second on_ function,
\* and the listener of its first is in the registry.
C38_Witness ==
    /\ lastCall.op = "register_all"
    /\ lastCall.error # "none"
    /\ \E l \in Records(listeners) :
          /\ l.plugin = lastCall.arg
          /\ l.event = PluginFuncs(lastCall.arg)[1][1]
          /\ l.seq = nextSeq

====
